---- MODULE Spec2Model ----
(***************************************************************************)
(* Session gating of the MCP-CMake server (src/mcp_cmake/server.py).       *)
(*                                                                         *)
(* The server keeps two module globals, IS_HEALTHY and WORKING_DIRECTORY.  *)
(* health_check (and the startup check of main) stores a health-check      *)
(* result into them through update_state; list_presets, create_project,    *)
(* build_project and test_project are wrapped by tool_guard, which refuses *)
(* while IS_HEALTHY is false and otherwise delegates to mcp_cmake.core     *)
(* with working_dir replaced by WORKING_DIRECTORY.                         *)
(*                                                                         *)
(* mcp_cmake.core and mcp_cmake.models are not part of the source tree at  *)
(* hand; the operators named Core... follow sections 4.1-4.7 and 6 of the  *)
(* specification.                                                          *)
(*                                                                         *)
(* Python values: an Optional[T] is a sequence of length 0 (None) or 1, a  *)
(* dict is a record, a list of strings is wrapped in a record.             *)
(***************************************************************************)
EXTENDS Naturals, Sequences, FiniteSets, TLC

VARIABLES
    IS_HEALTHY,         \* server.py:20
    WORKING_DIRECTORY,  \* server.py:19
    phase,              \* "startup" until main reaches mcp.run, then "serving"
    fs,                 \* the environment core.health_check inspects
    lastCall,           \* history: the most recent step, what it returned, and for a
                        \* health_check whether it repeats the call just before it
    lastCheck,          \* history: result of the most recent completed health check
    hc,                 \* a health_check call in flight (interleaved runs only)
    op,                 \* a gated call in flight (interleaved runs only)
    writers             \* history: which health check wrote each global

vars == <<IS_HEALTHY, WORKING_DIRECTORY, phase, fs, lastCall, lastCheck, hc, op, writers>>

---------------------------------------------------------------------------
(* Bounds *)

NumDirs == 2        \* candidate directories
MaxChecks == 3      \* health checks numbered in an interleaved run

DirNames == <<"/a", "/b", "/c", "/d">>
RelNames == <<"a", "b", "c", "d">>
Dirs == {DirNames[i] : i \in 1..NumDirs}

---------------------------------------------------------------------------
(* Python values *)

None == <<>>
Some(x) == <<x>>

\* bool(x) of an Optional[str]: None and "" are falsy
Truthy(o) == o # None /\ o[1] # ""

\* dict.get(key, default)
Get(r, key, default) == IF key \in DOMAIN r THEN r[key] ELSE default

\* kwargs[key] = value
SetKey(r, key, value) == [k \in DOMAIN r \cup {key} |-> IF k = key THEN value ELSE r[k]]

---------------------------------------------------------------------------
(* The environment: what a health check looks at *)

DirKinds == {"absent", "dir", "project"}   \* "project": a directory holding a build description

FsStates == [kind : [Dirs -> DirKinds], cmake : BOOLEAN, ctest : BOOLEAN]

PathIsDir(c, f) == c # None /\ c[1] \in Dirs /\ f.kind[c[1]] # "absent"
HasBuildFile(c, f) == c # None /\ c[1] \in Dirs /\ f.kind[c[1]] = "project"

Diag(m, s) == [message |-> m, severity |-> s]

\* core.health_check: the four checks all run and their diagnostics accumulate
CoreHealthCheck(c, f) ==
    LET d1 == IF PathIsDir(c, f) THEN <<>>
              ELSE <<Diag("working directory does not exist", "error")>>
        d2 == IF HasBuildFile(c, f) THEN <<>>
              ELSE <<Diag("build description not found", "error")>>
        d3 == IF f.cmake THEN <<>> ELSE <<Diag("build driver not found", "error")>>
        d4 == IF f.ctest THEN <<>> ELSE <<Diag("test driver not found", "warning")>>
        diags == d1 \o d2 \o d3 \o d4
    IN  [is_healthy |-> \A i \in 1..Len(diags) : diags[i].severity # "error",
         working_directory |-> IF PathIsDir(c, f) THEN c ELSE None,
         diagnostics |-> diags]

\* history kept of a completed health check: what the session stores of its result,
\* and the flag the check before it had produced ("none" for the first check)
Kept(result, before) ==
    [is_healthy |-> Get(result, "is_healthy", FALSE),
     working_directory |-> Get(result, "working_directory", None),
     after |-> IF before = None THEN "none"
               ELSE IF before[1].is_healthy THEN "healthy" ELSE "unhealthy"]

---------------------------------------------------------------------------
(* update_state, server.py:23-28 *)

\* variant: a success, once stored, is never cleared
StoreHealthy_sticky(healthy) == IS_HEALTHY' = (IS_HEALTHY \/ healthy)

\* variant: the flag is only raised when a working directory is already stored
StoreHealthy_needs_dir(healthy) == IS_HEALTHY' = (healthy /\ WORKING_DIRECTORY # None)

StoreHealthy(healthy) == IS_HEALTHY' = healthy

\* variant: the assignment binds a local name, the global is never written
StoreWorkingDir_local(working_dir) == WORKING_DIRECTORY' = WORKING_DIRECTORY

\* variant: the working directory is replaced whatever the result carries
StoreWorkingDir_always(working_dir) == WORKING_DIRECTORY' = working_dir

StoreWorkingDir(working_dir) ==
    WORKING_DIRECTORY' = IF Truthy(working_dir) THEN working_dir ELSE WORKING_DIRECTORY

update_state(healthy, working_dir) ==
    /\ StoreHealthy(healthy)
    /\ StoreWorkingDir(working_dir)

---------------------------------------------------------------------------
(* Initial state *)

NoCall == [op |-> "none"]

Idle == [pc |-> "idle"]

\* variant: the server starts out healthy
Init_healthy ==
    /\ IS_HEALTHY = TRUE
    /\ WORKING_DIRECTORY = None
    /\ phase = "startup"
    /\ fs \in FsStates
    /\ lastCall = NoCall
    /\ lastCheck = None
    /\ hc = Idle
    /\ op = Idle
    /\ writers = [n |-> 0, flag |-> 0, wd |-> 0]

Init ==
    /\ IS_HEALTHY = FALSE
    /\ WORKING_DIRECTORY = None
    /\ phase = "startup"
    /\ fs \in FsStates
    /\ lastCall = NoCall
    /\ lastCheck = None
    /\ hc = Idle
    /\ op = Idle
    /\ writers = [n |-> 0, flag |-> 0, wd |-> 0]

---------------------------------------------------------------------------
(* health_check tool, server.py:31-39 *)

HealthCheckArgs == {None} \cup {Some(d) : d \in Dirs}

\* variant: without an is_healthy field the flag stays as it was
FlagOf_keep(result) == Get(result, "is_healthy", IS_HEALTHY)

\* result.get("is_healthy", False), lines 38 and 124
FlagOf(result) == Get(result, "is_healthy", FALSE)

\* result.get("working_directory"), lines 38 and 124
DirOf(result) == Get(result, "working_directory", None)

\* lines 38-39, for the result that core.health_check returned at line 37
HealthCheckReturning(working_dir, result) ==
    /\ phase = "serving"
    /\ update_state(FlagOf(result), DirOf(result))
    /\ lastCall' = [op |-> "health_check", args |-> [working_dir |-> working_dir],
                    result |-> result, core |-> <<>>, procs |-> <<>>,
                    repeat |-> (lastCall.op = "health_check"
                                /\ lastCall.args.working_dir = working_dir)]
    /\ lastCheck' = Some(Kept(result, lastCheck))
    /\ UNCHANGED <<phase, fs, hc, op, writers>>

\* variant: only the flag is handed to update_state
health_check_flag_only(working_dir) ==
    /\ phase = "serving"
    /\ LET result == CoreHealthCheck(working_dir, fs) IN
        /\ update_state(FlagOf(result), None)
        /\ lastCall' = [op |-> "health_check", args |-> [working_dir |-> working_dir],
                        result |-> result, core |-> <<>>, procs |-> <<>>,
                        repeat |-> (lastCall.op = "health_check"
                                    /\ lastCall.args.working_dir = working_dir)]
        /\ lastCheck' = Some(Kept(result, lastCheck))
    /\ UNCHANGED <<phase, fs, hc, op, writers>>

health_check(working_dir) ==
    HealthCheckReturning(working_dir, CoreHealthCheck(working_dir, fs))

---------------------------------------------------------------------------
(* The environment changes one thing at a time *)

FsChange ==
    /\ \/ \E d \in Dirs, k \in DirKinds :
            /\ k # fs.kind[d]
            /\ fs' = [fs EXCEPT !.kind[d] = k]
       \/ fs' = [fs EXCEPT !.cmake = ~fs.cmake]
       \/ fs' = [fs EXCEPT !.ctest = ~fs.ctest]
    /\ lastCall' = [op |-> "fs_change"]
    /\ UNCHANGED <<IS_HEALTHY, WORKING_DIRECTORY, phase, lastCheck, hc, op, writers>>

---------------------------------------------------------------------------
(* mcp_cmake.core: the orchestrators behind the gated tools *)

Failure(summary, message) == [summary |-> summary, errors |-> <<Diag(message, "error")>>]
Success(summary) == [summary |-> summary]

ExitCodes == {0, 1}

PresetNames == <<"debug", "release">>

\* presets the build description at working_dir declares
ConfigurePresets(working_dir, f) ==
    IF HasBuildFile(working_dir, f) THEN {PresetNames[i] : i \in 1..Len(PresetNames)} ELSE {}

\* ProcessRunner and ResultClassifier: one launch-and-wait, classified by exit code;
\* an executable that cannot be started spawns nothing
CoreRun(found, exit, success, failSummary) ==
    IF ~found
    THEN [result |-> Failure(failSummary, "executable could not be started"), procs |-> <<>>]
    ELSE [result |-> IF exit = 0 THEN success ELSE Failure(failSummary, "non-zero exit"),
          procs |-> <<"launch", "wait">>]

CoreListPresets(working_dir, f, exit) ==
    CoreRun(f.cmake, exit,
            [presets |-> IF HasBuildFile(working_dir, f) THEN PresetNames ELSE <<>>],
            "Failed to list presets")

CoreCreateProject(working_dir, preset, cmake_defines, f, exit) ==
    IF preset \notin ConfigurePresets(working_dir, f)
    THEN [result |-> Failure("Configure failed", "unknown preset"), procs |-> <<>>]
    ELSE CoreRun(f.cmake, exit, Success("Configured successfully"), "Configure failed")

CoreBuildProject(working_dir, preset, targets, verbose, parallel_jobs, f, exit) ==
    IF preset \notin ConfigurePresets(working_dir, f)
    THEN [result |-> Failure("Build failed", "unknown preset"), procs |-> <<>>]
    ELSE CoreRun(f.cmake, exit, Success("Build succeeded"), "Build failed")

CoreTestProject(working_dir, preset, test_filter, verbose, parallel_jobs, f, exit) ==
    CoreRun(f.ctest, exit, Success("Tests passed"), "Tests failed")

---------------------------------------------------------------------------
(* The gated tools, server.py:58-97: each body is one call into core.      *)
(* A tool returns [result, core, procs]: what the caller gets, the core    *)
(* operations invoked with their arguments, the subprocess events.         *)

Invoked(fn, args, r) ==
    [result |-> r.result, core |-> <<[fn |-> fn, args |-> args]>>, procs |-> r.procs]

list_presets(kwargs, exit) ==
    Invoked("list_presets", [working_dir |-> kwargs.working_dir],
            CoreListPresets(kwargs.working_dir, fs, exit))

\* variant: the tool lists the presets itself before it configures
create_project_prelists(kwargs, exit) ==
    LET cmake_defines == Get(kwargs, "cmake_defines", None)
        listed == CoreListPresets(kwargs.working_dir, fs, exit)
        made == CoreCreateProject(kwargs.working_dir, kwargs.preset, cmake_defines, fs, exit) IN
    [result |-> made.result,
     core |-> <<[fn |-> "list_presets", args |-> [working_dir |-> kwargs.working_dir]],
                [fn |-> "create_project",
                 args |-> [working_dir |-> kwargs.working_dir, preset |-> kwargs.preset,
                           cmake_defines |-> cmake_defines]]>>,
     procs |-> listed.procs \o made.procs]

create_project(kwargs, exit) ==
    LET cmake_defines == Get(kwargs, "cmake_defines", None) IN
    Invoked("create_project",
            [working_dir |-> kwargs.working_dir, preset |-> kwargs.preset,
             cmake_defines |-> cmake_defines],
            CoreCreateProject(kwargs.working_dir, kwargs.preset, cmake_defines, fs, exit))

build_project(kwargs, exit) ==
    LET targets == Get(kwargs, "targets", None)
        verbose == Get(kwargs, "verbose", FALSE)
        parallel_jobs == Get(kwargs, "parallel_jobs", None) IN
    Invoked("build_project",
            [working_dir |-> kwargs.working_dir, preset |-> kwargs.preset,
             targets |-> targets, verbose |-> verbose, parallel_jobs |-> parallel_jobs],
            CoreBuildProject(kwargs.working_dir, kwargs.preset, targets, verbose,
                             parallel_jobs, fs, exit))

test_project(kwargs, exit) ==
    LET test_filter == Get(kwargs, "test_filter", None)
        verbose == Get(kwargs, "verbose", FALSE)
        parallel_jobs == Get(kwargs, "parallel_jobs", None) IN
    Invoked("test_project",
            [working_dir |-> kwargs.working_dir, preset |-> kwargs.preset,
             test_filter |-> test_filter, verbose |-> verbose, parallel_jobs |-> parallel_jobs],
            CoreTestProject(kwargs.working_dir, kwargs.preset, test_filter, verbose,
                            parallel_jobs, fs, exit))

GatedTools == {"list_presets", "create_project", "build_project", "test_project"}

\* func(*args, **kwargs) for the decorated function
Apply(func, kwargs, exit) ==
    CASE func = "list_presets" -> list_presets(kwargs, exit)
      [] func = "create_project" -> create_project(kwargs, exit)
      [] func = "build_project" -> build_project(kwargs, exit)
      [] func = "test_project" -> test_project(kwargs, exit)

---------------------------------------------------------------------------
(* tool_guard, server.py:42-55 *)

\* models.FailureResponse(summary=..., errors=...).dict()
FailureResponse(summary, errors) == [summary |-> summary, errors |-> errors]

Refused ==
    [result |-> FailureResponse("Server is not in a healthy state.",
                                <<[message |-> "Run health_check first.", severity |-> "error"]>>),
     core |-> <<>>, procs |-> <<>>]

\* variant: the health flag is not consulted
wrapper_unguarded(func, kwargs, exit) ==
    Apply(func, SetKey(kwargs, "working_dir", WORKING_DIRECTORY), exit)

\* variant: kwargs.setdefault("working_dir", ...), a caller's own value survives
wrapper_setdefault(func, kwargs, exit) ==
    IF ~IS_HEALTHY
    THEN Refused
    ELSE Apply(func, SetKey(kwargs, "working_dir",
                            Get(kwargs, "working_dir", WORKING_DIRECTORY)), exit)

wrapper(func, kwargs, exit) ==
    IF ~IS_HEALTHY
    THEN Refused
    ELSE Apply(func, SetKey(kwargs, "working_dir", WORKING_DIRECTORY), exit)

---------------------------------------------------------------------------
(* What a client may send *)

Presets == {"debug", "bogus"}

\* a request with or without a working_dir of the caller's own
CallerDir == DirNames[1]
WithCallerDir(S) == S \cup {SetKey(k, "working_dir", Some(CallerDir)) : k \in S}

ListPresetsKwargs == WithCallerDir({[ctx |-> "ctx"]})

\* optional arguments are left out, or given
CreateProjectKwargs ==
    WithCallerDir({[ctx |-> "ctx", preset |-> p] : p \in Presets}
                  \cup {[ctx |-> "ctx", preset |-> p, cmake_defines |-> Some("FOO=1")] :
                        p \in Presets})

BuildProjectKwargs ==
    WithCallerDir({[ctx |-> "ctx", preset |-> p] : p \in Presets}
                  \cup {[ctx |-> "ctx", preset |-> p, targets |-> Some("all")] : p \in Presets}
                  \cup {[ctx |-> "ctx", preset |-> p, targets |-> Some("app lib"),
                         verbose |-> TRUE, parallel_jobs |-> Some(4)] : p \in Presets})

TestProjectKwargs ==
    WithCallerDir({[ctx |-> "ctx", preset |-> p] : p \in Presets}
                  \cup {[ctx |-> "ctx", preset |-> p, test_filter |-> Some("unit")] : p \in Presets}
                  \cup {[ctx |-> "ctx", preset |-> p, test_filter |-> Some("^it_"),
                         verbose |-> TRUE, parallel_jobs |-> Some(4)] : p \in Presets})

KwargsOf(func) ==
    CASE func = "list_presets" -> ListPresetsKwargs
      [] func = "create_project" -> CreateProjectKwargs
      [] func = "build_project" -> BuildProjectKwargs
      [] func = "test_project" -> TestProjectKwargs

\* variant: the guard adopts a working_dir the caller sent as the session's own
ToolCall_adopts_dir(func, kwargs, exit) ==
    /\ phase = "serving"
    /\ LET r == wrapper(func, kwargs, exit) IN
        lastCall' = [op |-> func, args |-> kwargs, result |-> r.result,
                     core |-> r.core, procs |-> r.procs]
    /\ WORKING_DIRECTORY' = Get(kwargs, "working_dir", WORKING_DIRECTORY)
    /\ UNCHANGED <<IS_HEALTHY, phase, fs, lastCheck, hc, op, writers>>

\* one call of a gated tool, from request to response
ToolCall(func, kwargs, exit) ==
    /\ phase = "serving"
    /\ LET r == wrapper(func, kwargs, exit) IN
        lastCall' = [op |-> func, args |-> kwargs, result |-> r.result,
                     core |-> r.core, procs |-> r.procs]
    /\ UNCHANGED <<IS_HEALTHY, WORKING_DIRECTORY, phase, fs, lastCheck, hc, op, writers>>

---------------------------------------------------------------------------
(* main, server.py:100-131 *)

\* os.path.abspath with the process started in "/"
AbsPath(p) ==
    IF \E i \in 1..Len(RelNames) : RelNames[i] = p
    THEN DirNames[CHOOSE i \in 1..Len(RelNames) : RelNames[i] = p]
    ELSE p

CliArgs == {None, Some(""), Some(RelNames[1])} \cup {Some(d) : d \in Dirs}

\* lines 119-125 with --working-dir given, for the result that core.health_check
\* returned at line 123, then mcp.run
MainChecked(working_dir, result) ==
    /\ phase = "startup"
    /\ update_state(FlagOf(result), DirOf(result))
    /\ lastCall' = [op |-> "main", args |-> [working_dir |-> working_dir],
                    result |-> result, core |-> <<>>, procs |-> <<>>]
    /\ lastCheck' = Some(Kept(result, lastCheck))
    /\ phase' = "serving"
    /\ UNCHANGED <<fs, hc, op, writers>>

\* line 119 false: straight to mcp.run
MainUnchecked(working_dir) ==
    /\ phase = "startup"
    /\ lastCall' = [op |-> "main", args |-> [working_dir |-> working_dir],
                    result |-> [skipped |-> TRUE], core |-> <<>>, procs |-> <<>>]
    /\ phase' = "serving"
    /\ UNCHANGED <<IS_HEALTHY, WORKING_DIRECTORY, lastCheck, fs, hc, op, writers>>

\* variant: the path is checked as typed, not made absolute
main_as_typed(working_dir) ==
    IF Truthy(working_dir)
    THEN MainChecked(working_dir, CoreHealthCheck(working_dir, fs))
    ELSE MainUnchecked(working_dir)

main(working_dir) ==
    IF Truthy(working_dir)
    THEN MainChecked(working_dir, CoreHealthCheck(Some(AbsPath(working_dir[1])), fs))
    ELSE MainUnchecked(working_dir)

---------------------------------------------------------------------------
(* Calls served one at a time *)

Next ==
    \/ \E a \in CliArgs : main(a)
    \/ \E d \in HealthCheckArgs : health_check(d)
    \/ \E func \in GatedTools : \E kwargs \in KwargsOf(func), exit \in ExitCodes :
          ToolCall(func, kwargs, exit)
    \/ FsChange

Spec == Init /\ [][Next]_vars

---------------------------------------------------------------------------
(* Properties of calls served one at a time *)

GateEnvelope ==
    [summary |-> "Server is not in a healthy state.",
     errors |-> <<[message |-> "Run health_check first.", severity |-> "error"]>>]

IsGated(c) == c.op \in GatedTools

\* a health check ran to completion in this step: the tool, or main with --working-dir
CheckDone(c) == c.op = "health_check" \/ (c.op = "main" /\ "skipped" \notin DOMAIN c.result)

\* the directory that check was asked about
Candidate(c) ==
    IF c.op = "main" THEN Some(AbsPath(c.args.working_dir[1])) ELSE c.args.working_dir

\* C1: a gated tool called while the health flag is false returns exactly the gate
\* envelope as its value, and neither a core operation nor a subprocess is started.
C1_GateRefuses ==
    [][(IsGated(lastCall') /\ ~IS_HEALTHY)
        => /\ lastCall'.result = GateEnvelope
           /\ lastCall'.core = <<>>
           /\ lastCall'.procs = <<>>]_vars

C1_Witness ==
    /\ IsGated(lastCall)
    /\ ~IS_HEALTHY
    /\ lastCall.result = GateEnvelope

\* C2: the health flag is the is_healthy of the most recently completed health check,
\* and a gated tool is refused exactly when that check was unhealthy.
C2_FlagIsLastCheck ==
    lastCheck # None
    => /\ IS_HEALTHY = lastCheck[1].is_healthy
       /\ IsGated(lastCall) => (lastCall.core = <<>> <=> ~lastCheck[1].is_healthy)

\* an unhealthy check right after a healthy one, then a refused call
C2_Witness ==
    /\ lastCheck # None
    /\ lastCheck[1].after = "healthy"
    /\ ~lastCheck[1].is_healthy
    /\ IsGated(lastCall)
    /\ lastCall.core = <<>>

\* C3: until a health check has completed the session is {is_healthy: false,
\* working_directory: none} and every gated tool is refused with the gate envelope.
C3_InitialRefusal ==
    lastCheck = None
    => /\ IS_HEALTHY = FALSE
       /\ WORKING_DIRECTORY = None
       /\ IsGated(lastCall) => /\ lastCall.result = GateEnvelope
                               /\ lastCall.core = <<>>
                               /\ lastCall.procs = <<>>

C3_Witness ==
    /\ lastCheck = None
    /\ phase = "serving"
    /\ IsGated(lastCall)

\* C4: a gated tool call, refused or delegated, leaves the health flag and the working
\* directory as they were; only a health check (tool or startup) changes either.
C4_GatedCallsKeepState ==
    [][/\ IsGated(lastCall') => /\ IS_HEALTHY' = IS_HEALTHY
                                /\ WORKING_DIRECTORY' = WORKING_DIRECTORY
       /\ (IS_HEALTHY' # IS_HEALTHY \/ WORKING_DIRECTORY' # WORKING_DIRECTORY)
            => CheckDone(lastCall')]_vars

\* a delegated call whose caller sent another directory than the session's
C4_Witness ==
    /\ IsGated(lastCall)
    /\ lastCall.core # <<>>
    /\ "working_dir" \in DOMAIN lastCall.args
    /\ lastCall.args.working_dir # WORKING_DIRECTORY
    /\ IS_HEALTHY

\* C5 as stated: after a health check the stored pair is exactly the pair of the
\* result that check returned.
C5_StoredPairIsResultPair ==
    CheckDone(lastCall)
    => /\ IS_HEALTHY = Get(lastCall.result, "is_healthy", FALSE)
       /\ WORKING_DIRECTORY = Get(lastCall.result, "working_directory", None)

\* C5 amended: a health check stores its result's is_healthy, and stores its result's
\* working_directory when the result names one; when the result names none the
\* working directory stored before the check stays.
C5_FlagReplacedDirKeptWhenAbsent ==
    [][CheckDone(lastCall')
        => LET is_healthy == Get(lastCall'.result, "is_healthy", FALSE)
               working_directory == Get(lastCall'.result, "working_directory", None)
           IN  /\ IS_HEALTHY' = is_healthy
               /\ WORKING_DIRECTORY' = IF Truthy(working_directory)
                                       THEN working_directory
                                       ELSE WORKING_DIRECTORY]_vars

\* the flag of this check beside the working directory of an earlier one
C5_Witness ==
    /\ CheckDone(lastCall)
    /\ lastCall.result.working_directory = None
    /\ WORKING_DIRECTORY # None
    /\ ~IS_HEALTHY

\* C6: a health check changes the working directory only to its candidate and only if
\* the candidate is an existing directory; a check of a candidate that does not exist
\* keeps the stored working directory and sets the flag to false.
C6_DirOnlyIfCandidateExists ==
    [][CheckDone(lastCall')
        => LET c == Candidate(lastCall') IN
           /\ WORKING_DIRECTORY' # WORKING_DIRECTORY
                => (PathIsDir(c, fs) /\ WORKING_DIRECTORY' = c)
           /\ ~PathIsDir(c, fs)
                => (WORKING_DIRECTORY' = WORKING_DIRECTORY /\ IS_HEALTHY' = FALSE)]_vars

\* a check of a missing directory, with another directory still stored
C6_Witness ==
    /\ lastCall.op = "health_check"
    /\ lastCall.args.working_dir # None
    /\ ~PathIsDir(lastCall.args.working_dir, fs)
    /\ WORKING_DIRECTORY # None
    /\ IS_HEALTHY = FALSE

\* C8: health_check(D) called again right after health_check(D), with nothing changed
\* in the environment in between, returns the same result and leaves the session
\* state as the first call left it.
C8_HealthCheckIdempotent ==
    [][(/\ lastCall.op = "health_check"
        /\ lastCall'.op = "health_check"
        /\ lastCall'.args = lastCall.args)
        => /\ lastCall'.result = lastCall.result
           /\ IS_HEALTHY' = IS_HEALTHY
           /\ WORKING_DIRECTORY' = WORKING_DIRECTORY]_vars

C8_Witness ==
    /\ lastCall.op = "health_check"
    /\ lastCall.repeat
    /\ lastCall.args.working_dir # None

Launches(procs) == Cardinality({i \in 1..Len(procs) : procs[i] = "launch"})

\* subprocesses alive after the first n events
Live(procs, n) ==
    Cardinality({i \in 1..n : procs[i] = "launch"}) - Cardinality({i \in 1..n : procs[i] = "wait"})

CoreParams(fn) ==
    CASE fn = "list_presets" -> {"working_dir"}
      [] fn = "create_project" -> {"working_dir", "preset", "cmake_defines"}
      [] fn = "build_project" ->
            {"working_dir", "preset", "targets", "verbose", "parallel_jobs"}
      [] fn = "test_project" ->
            {"working_dir", "preset", "test_filter", "verbose", "parallel_jobs"}

DefaultOf(k) == IF k = "verbose" THEN FALSE ELSE None

\* C10: with the health flag true a gated tool calls its own core operation exactly
\* once, with working_dir the session working directory whatever the caller sent, and
\* with every other argument as the caller gave it.
C10_DelegatesWithSessionDir ==
    [][(IsGated(lastCall') /\ IS_HEALTHY)
        => /\ Len(lastCall'.core) = 1
           /\ lastCall'.core[1].fn = lastCall'.op
           /\ DOMAIN lastCall'.core[1].args = CoreParams(lastCall'.op)
           /\ lastCall'.core[1].args.working_dir = WORKING_DIRECTORY
           /\ \A k \in CoreParams(lastCall'.op) \ {"working_dir"} :
                 lastCall'.core[1].args[k] = Get(lastCall'.args, k, DefaultOf(k))]_vars

\* a delegated call with every option given and a directory of the caller's own
C10_Witness ==
    /\ IsGated(lastCall)
    /\ IS_HEALTHY
    /\ Len(lastCall.core) = 1
    /\ "working_dir" \in DOMAIN lastCall.args
    /\ lastCall.args.working_dir # WORKING_DIRECTORY
    /\ Get(lastCall.args, "verbose", FALSE)
    /\ lastCall.core[1].args.working_dir = WORKING_DIRECTORY

\* C12: whenever the health flag is true a working directory is stored, so a
\* delegated gated call never hands working_dir = None to the core.
C12_HealthyHasDir ==
    /\ IS_HEALTHY => WORKING_DIRECTORY # None
    /\ IsGated(lastCall)
         => \A i \in 1..Len(lastCall.core) : lastCall.core[i].args.working_dir # None

\* a delegated call in a session that an earlier check had found unhealthy
C12_Witness ==
    /\ IS_HEALTHY
    /\ IsGated(lastCall)
    /\ lastCall.core # <<>>
    /\ lastCall.core[1].args.working_dir = WORKING_DIRECTORY
    /\ lastCheck[1].after = "unhealthy"

\* C13 as stated: whenever --working-dir was given, the startup health check has run
\* by the time the server serves.
C13_CheckRunsWheneverArgGiven ==
    (lastCall.op = "main" /\ lastCall.args.working_dir # None)
    => "skipped" \notin DOMAIN lastCall.result

\* C13 amended: started with a non-empty --working-dir, the server has, before it
\* serves any tool call, run a health check on the absolute path of that directory and
\* stored its result as health_check would; started without --working-dir, or with an
\* empty one, it runs no check and serves from the initial unhealthy state.
C13_StartupCheckOnNonEmptyArg ==
    /\ phase = "startup" => (lastCall.op \in {"none", "fs_change"} /\ lastCheck = None)
    /\ lastCall.op = "main"
         => IF lastCall.args.working_dir # None /\ lastCall.args.working_dir # Some("")
            THEN LET result == CoreHealthCheck(Some(AbsPath(lastCall.args.working_dir[1])), fs)
                 IN  /\ lastCall.result = result
                     /\ lastCheck # None
                     /\ IS_HEALTHY = result.is_healthy
                     /\ WORKING_DIRECTORY = result.working_directory
            ELSE /\ "skipped" \in DOMAIN lastCall.result
                 /\ lastCheck = None
                 /\ IS_HEALTHY = FALSE
                 /\ WORKING_DIRECTORY = None

\* started with a relative path to a healthy project
C13_Witness ==
    /\ lastCall.op = "main"
    /\ lastCall.args.working_dir = Some(RelNames[1])
    /\ IS_HEALTHY
    /\ WORKING_DIRECTORY = Some(DirNames[1])

---------------------------------------------------------------------------
(* The result of core.health_check left open: server.py reads it only      *)
(* through dict.get, so any dict is handled, with or without the           *)
(* is_healthy and working_directory keys.                                  *)

\* the shortest request of every tool, its options left out
ThreadKwargs(func) ==
    IF func = "list_presets" THEN {[ctx |-> "ctx"]} ELSE {[ctx |-> "ctx", preset |-> "debug"]}

AnyResults ==
    LET flags == {[diagnostics |-> <<>>]}
                 \cup {[diagnostics |-> <<>>, is_healthy |-> h] : h \in BOOLEAN}
    IN  flags \cup {SetKey(r, "working_directory", w) :
                    r \in flags, w \in {None} \cup {Some(d) : d \in Dirs}}

InitAny == Init /\ fs.cmake /\ fs.ctest

MainAny(working_dir, result) ==
    IF Truthy(working_dir)
    THEN MainChecked(working_dir, result)
    ELSE MainUnchecked(working_dir)

NextAny ==
    \/ \E a \in CliArgs, r \in AnyResults : MainAny(a, r)
    \/ \E d \in HealthCheckArgs, r \in AnyResults : HealthCheckReturning(d, r)
    \/ \E func \in GatedTools : \E kwargs \in ThreadKwargs(func), exit \in ExitCodes :
          ToolCall(func, kwargs, exit)

SpecAny == InitAny /\ [][NextAny]_vars

\* C14: a health check (tool or startup) whose result has no is_healthy field sets
\* the health flag to false whatever it was, and gated tools are refused after it.
C14_MissingFlagFailsClosed ==
    /\ (CheckDone(lastCall) /\ "is_healthy" \notin DOMAIN lastCall.result)
         => IS_HEALTHY = FALSE
    /\ (/\ IsGated(lastCall)
        /\ lastCheck # None
        /\ ~lastCheck[1].is_healthy)
         => lastCall.result = GateEnvelope

\* a result without the field, stored over a flag that was true
C14_Witness ==
    /\ lastCall.op = "health_check"
    /\ "is_healthy" \notin DOMAIN lastCall.result
    /\ lastCheck[1].after = "healthy"
    /\ IS_HEALTHY = FALSE

---------------------------------------------------------------------------
(* Calls served on threads.  server.py takes no lock: update_state writes  *)
(* IS_HEALTHY (line 26) and WORKING_DIRECTORY (line 28) in two statements, *)
(* and tool_guard's wrapper reads IS_HEALTHY (line 46) and                 *)
(* WORKING_DIRECTORY (line 52) in two statements, so a health_check and a  *)
(* gated tool running on two threads interleave statement by statement.    *)
(* Health checks are numbered; writers records the number of the check     *)
(* that last wrote each global (0: the value the server started serving    *)
(* with).  A gated call in flight also remembers, as history, the working  *)
(* directory the session held when the call passed the gate (entryDir).    *)

\* health_check, line 37: core.health_check runs, the result is held locally
HcCall(working_dir) ==
    /\ phase = "serving"
    /\ hc.pc = "idle"
    /\ writers.n < MaxChecks
    /\ hc' = [pc |-> "store_healthy", id |-> writers.n + 1,
              args |-> [working_dir |-> working_dir],
              result |-> CoreHealthCheck(working_dir, fs)]
    /\ writers' = [writers EXCEPT !.n = writers.n + 1]
    /\ UNCHANGED <<IS_HEALTHY, WORKING_DIRECTORY, phase, fs, lastCall, lastCheck, op>>

\* update_state, line 26
HcStoreHealthy ==
    /\ hc.pc = "store_healthy"
    /\ StoreHealthy(FlagOf(hc.result))
    /\ writers' = [writers EXCEPT !.flag = hc.id]
    /\ hc' = [hc EXCEPT !.pc = "store_dir"]
    /\ UNCHANGED <<WORKING_DIRECTORY, phase, fs, lastCall, lastCheck, op>>

\* update_state, lines 27-28, and the return of line 39
HcStoreDir ==
    /\ hc.pc = "store_dir"
    /\ StoreWorkingDir(DirOf(hc.result))
    /\ writers' = [writers EXCEPT !.wd = IF Truthy(DirOf(hc.result))
                                         THEN hc.id ELSE writers.wd]
    /\ lastCall' = [op |-> "health_check", args |-> hc.args, result |-> hc.result,
                    core |-> <<>>, procs |-> <<>>, repeat |-> FALSE]
    /\ lastCheck' = Some(Kept(hc.result, lastCheck))
    /\ hc' = Idle
    /\ UNCHANGED <<IS_HEALTHY, phase, fs, op>>

\* wrapper, lines 46-50: the flag is read; an unhealthy session refuses at once
OpCall(func, kwargs) ==
    /\ phase = "serving"
    /\ op.pc = "idle"
    /\ IF ~IS_HEALTHY
       THEN /\ lastCall' = [op |-> func, args |-> kwargs, result |-> Refused.result,
                            core |-> Refused.core, procs |-> Refused.procs]
            /\ op' = Idle
       ELSE /\ op' = [pc |-> "read_dir", func |-> func, args |-> kwargs,
                      flagFrom |-> writers.flag, entryDir |-> WORKING_DIRECTORY]
            /\ UNCHANGED lastCall
    /\ UNCHANGED <<IS_HEALTHY, WORKING_DIRECTORY, phase, fs, lastCheck, hc, writers>>

\* wrapper, line 52: the working directory is read into kwargs
OpReadDir ==
    /\ op.pc = "read_dir"
    /\ op' = [pc |-> "run", func |-> op.func, args |-> op.args,
              kwargs |-> SetKey(op.args, "working_dir", WORKING_DIRECTORY),
              flagFrom |-> op.flagFrom, dirFrom |-> writers.wd,
              entryDir |-> op.entryDir]
    /\ UNCHANGED <<IS_HEALTHY, WORKING_DIRECTORY, phase, fs, lastCall, lastCheck, hc, writers>>

\* wrapper, line 53: the decorated function runs and returns
OpRun(exit) ==
    /\ op.pc = "run"
    /\ LET r == Apply(op.func, op.kwargs, exit) IN
        lastCall' = [op |-> op.func, args |-> op.args, result |-> r.result,
                     core |-> r.core, procs |-> r.procs]
    /\ op' = Idle
    /\ UNCHANGED <<IS_HEALTHY, WORKING_DIRECTORY, phase, fs, lastCheck, hc, writers>>

\* main runs alone before mcp.run starts serving: what it stores counts, like the
\* initial values, as written by check 0
NextConc ==
    \/ \E a \in CliArgs : main(a)
    \/ \E d \in HealthCheckArgs : HcCall(d)
    \/ HcStoreHealthy
    \/ HcStoreDir
    \/ \E func \in GatedTools : \E kwargs \in ThreadKwargs(func) : OpCall(func, kwargs)
    \/ OpReadDir
    \/ \E exit \in ExitCodes : OpRun(exit)

SpecConc == Init /\ [][NextConc]_vars

\* C7: a gated tool that proceeds works with a health flag and a working directory
\* written by one and the same health check.
C7_FlagAndDirFromOneCheck ==
    op.pc = "run" => op.flagFrom = op.dirFrom

\* C11: a gated tool that has passed the gate runs against the working directory the
\* session held when the call entered, whatever a health check completing in the
\* meantime stores.
C11_DirFixedAtEntry ==
    op.pc = "run" => op.kwargs.working_dir = op.entryDir

====
